---- MODULE Spec2Model ----
(***************************************************************************)
(* Sandbagging risk engine of the handicap evaluation tool:                *)
(*   app/services/sandbagging.py  - risk scorer and the five detectors     *)
(*   app/routes/golf.py           - analyze_sandbagging, the handler       *)
(*                                                                         *)
(* Real numbers are fixed-point integers.  Every quantity the code         *)
(* compares against a threshold is kept in a unit in which both the        *)
(* quantity and the threshold are exact:                                   *)
(*   strokes       StrokeUnit units per stroke (means over at most         *)
(*                 MaxRounds integer scores are exact)                     *)
(*   percentile    PctUnit units per percentage point                      *)
(*   ratio         hundredths                                              *)
(*   probability   JointUnit units per 1.0                                 *)
(*   risk score    points (the code only ever adds integers)               *)
(***************************************************************************)
EXTENDS Integers, Sequences, FiniteSets, TLC

VARIABLES call, request, response, cache, now, tasks, stored

vars == <<call, request, response, cache, now, tasks, stored>>

\* the middleware's state: cache is self.cache, now the clock read by
\* datetime.now(), tasks the dispatch calls in progress (with the time of their
\* lookup), stored the body and the time of the last store made for each request
\* (a history of the stores)
cacheVars == <<cache, now, tasks, stored>>

(* ---------------------------------------------------------------- bounds *)
MaxRounds == 3

MaxFlags == 6

MaxCritical == 3

MaxList == 5

(* ----------------------------------------------------------------- units *)
RECURSIVE Gcd(_, _)
Gcd(a, b) == IF b = 0 THEN a ELSE Gcd(b, a % b)

Lcm(a, b) == (a * b) \div Gcd(a, b)

RECURSIVE LcmUpTo(_)
LcmUpTo(n) == IF n <= 1 THEN 1 ELSE Lcm(n, LcmUpTo(n - 1))

RoundsLcm == LcmUpTo(MaxRounds)

StrokeUnit == 2 * RoundsLcm

PctUnit == RoundsLcm

JointUnit == 100 * 100 * 100 * 100

\* t tenths of a stroke, e.g. Strokes(-25) is -2.5
Strokes(t) == (t * StrokeUnit) \div 10

\* p percentage points
Pct(p) == p * PctUnit

\* h hundredths, e.g. Ratio(70) is 0.7
Ratio(h) == h

\* n / d as a probability, e.g. Prob(1, 100) is 0.01
Prob(n, d) == (n * JointUnit) \div d

Min(a, b) == IF a < b THEN a ELSE b

NoFlag == [flag_type |-> "NONE", severity |-> "NONE"]

SandbaggerRedFlag(t, s) == [flag_type |-> t, severity |-> s]

(* ------------------------------------------- services/sandbagging.py *)

\* Factor 1, lines 40-47
TournamentPoints(tournament_avg_vs_expected) ==
    IF tournament_avg_vs_expected < Strokes(-20) THEN 40
    ELSE IF tournament_avg_vs_expected < Strokes(-10) THEN 30
    ELSE IF tournament_avg_vs_expected < Strokes(-5) THEN 20
    ELSE IF tournament_avg_vs_expected < 0 THEN 10
    ELSE 0

\* Factor 2, lines 51-58
PercentilePoints(tournament_percentile) ==
    IF tournament_percentile < Pct(5) THEN 25
    ELSE IF tournament_percentile < Pct(15) THEN 20
    ELSE IF tournament_percentile < Pct(25) THEN 15
    ELSE IF tournament_percentile < Pct(40) THEN 10
    ELSE 0

\* erratic scores earn points as well
VolatilityPoints_Erratic(volatility_ratio) ==
    IF volatility_ratio < Ratio(50) THEN 20
    ELSE IF volatility_ratio < Ratio(70) THEN 15
    ELSE IF volatility_ratio < Ratio(90) THEN 10
    ELSE IF volatility_ratio > Ratio(100) THEN 10
    ELSE 0

\* Factor 3, lines 62-67
VolatilityPoints(volatility_ratio) ==
    IF volatility_ratio < Ratio(50) THEN 20
    ELSE IF volatility_ratio < Ratio(70) THEN 15
    ELSE IF volatility_ratio < Ratio(90) THEN 10
    ELSE 0

\* every flag counts, without the cap of 15
FlagPoints_Uncapped(num_red_flags) == num_red_flags * 3

\* Factor 4, line 70
FlagPoints(num_red_flags) == Min(num_red_flags * 3, 15)

\* a critical flag adds 5 points
CriticalPoints_Half(critical_flags) == critical_flags * 5

\* critical flags add nothing
CriticalPoints_None(critical_flags) == 0

\* line 73
CriticalPoints(critical_flags) == critical_flags * 10

\* the cap is missing
CapScore_NoCap(raw) == raw

\* line 76
CapScore(raw) == Min(raw, 100)

\* a score of exactly 75 is only HIGH
RiskLevel_Strict(risk_score) ==
    IF risk_score > 75 THEN "SEVERE"
    ELSE IF risk_score >= 50 THEN "HIGH"
    ELSE IF risk_score >= 25 THEN "MODERATE"
    ELSE "LOW"

\* lines 79-86
RiskLevel(risk_score) ==
    IF risk_score >= 75 THEN "SEVERE"
    ELSE IF risk_score >= 50 THEN "HIGH"
    ELSE IF risk_score >= 25 THEN "MODERATE"
    ELSE "LOW"

calculate_sandbagging_risk_score(tournament_avg_vs_expected, tournament_percentile, volatility_ratio, num_red_flags, critical_flags) ==
    LET risk_score == CapScore(TournamentPoints(tournament_avg_vs_expected)
                               + PercentilePoints(tournament_percentile)
                               + VolatilityPoints(volatility_ratio)
                               + FlagPoints(num_red_flags)
                               + CriticalPoints(critical_flags))
    IN  [risk_score |-> risk_score, risk_level |-> RiskLevel(risk_score)]

\* the MEDIUM tier starts at the gate of line 101 instead of at -1.0
detect_tournament_excellence_pattern_Wide(tournament_avg_vs_expected, tournament_percentile) ==
    IF tournament_avg_vs_expected >= Strokes(-5) THEN NoFlag
    ELSE IF tournament_avg_vs_expected <= Strokes(-25) /\ tournament_percentile < Pct(10)
         THEN SandbaggerRedFlag("TOURNAMENT_EXCELLENCE", "CRITICAL")
    ELSE IF tournament_avg_vs_expected <= Strokes(-15) /\ tournament_percentile < Pct(20)
         THEN SandbaggerRedFlag("TOURNAMENT_EXCELLENCE", "HIGH")
    ELSE IF tournament_percentile < Pct(30)
         THEN SandbaggerRedFlag("TOURNAMENT_EXCELLENCE", "MEDIUM")
    ELSE NoFlag

\* the CRITICAL tier starts at -3.0 instead of -2.5
detect_tournament_excellence_pattern_LateCritical(tournament_avg_vs_expected, tournament_percentile) ==
    IF tournament_avg_vs_expected >= Strokes(-5) THEN NoFlag
    ELSE IF tournament_avg_vs_expected <= Strokes(-30) /\ tournament_percentile < Pct(10)
         THEN SandbaggerRedFlag("TOURNAMENT_EXCELLENCE", "CRITICAL")
    ELSE IF tournament_avg_vs_expected <= Strokes(-15) /\ tournament_percentile < Pct(20)
         THEN SandbaggerRedFlag("TOURNAMENT_EXCELLENCE", "HIGH")
    ELSE IF tournament_avg_vs_expected <= Strokes(-10) /\ tournament_percentile < Pct(30)
         THEN SandbaggerRedFlag("TOURNAMENT_EXCELLENCE", "MEDIUM")
    ELSE NoFlag

detect_tournament_excellence_pattern(tournament_avg_vs_expected, tournament_percentile) ==
    IF tournament_avg_vs_expected >= Strokes(-5) THEN NoFlag
    ELSE IF tournament_avg_vs_expected <= Strokes(-25) /\ tournament_percentile < Pct(10)
         THEN SandbaggerRedFlag("TOURNAMENT_EXCELLENCE", "CRITICAL")
    ELSE IF tournament_avg_vs_expected <= Strokes(-15) /\ tournament_percentile < Pct(20)
         THEN SandbaggerRedFlag("TOURNAMENT_EXCELLENCE", "HIGH")
    ELSE IF tournament_avg_vs_expected <= Strokes(-10) /\ tournament_percentile < Pct(30)
         THEN SandbaggerRedFlag("TOURNAMENT_EXCELLENCE", "MEDIUM")
    ELSE NoFlag

\* a ratio of exactly 0.5 counts as HIGH
detect_low_volatility_pattern_Inclusive(volatility_ratio) ==
    IF volatility_ratio >= Ratio(70) THEN NoFlag
    ELSE IF volatility_ratio <= Ratio(50)
         THEN SandbaggerRedFlag("LOW_VOLATILITY", "HIGH")
    ELSE SandbaggerRedFlag("LOW_VOLATILITY", "MEDIUM")

detect_low_volatility_pattern(volatility_ratio) ==
    IF volatility_ratio >= Ratio(70) THEN NoFlag
    ELSE IF volatility_ratio < Ratio(50)
         THEN SandbaggerRedFlag("LOW_VOLATILITY", "HIGH")
    ELSE IF volatility_ratio < Ratio(70)
         THEN SandbaggerRedFlag("LOW_VOLATILITY", "MEDIUM")
    ELSE NoFlag

\* a joint probability of exactly 0.01 is flagged MEDIUM
detect_improbable_performance_Inclusive(joint_probability) ==
    IF joint_probability > Prob(1, 100) THEN NoFlag
    ELSE IF joint_probability < Prob(1, 10000)
         THEN SandbaggerRedFlag("IMPROBABLE_CONSISTENCY", "CRITICAL")
    ELSE IF joint_probability < Prob(1, 1000)
         THEN SandbaggerRedFlag("IMPROBABLE_CONSISTENCY", "HIGH")
    ELSE SandbaggerRedFlag("IMPROBABLE_CONSISTENCY", "MEDIUM")

detect_improbable_performance(joint_probability) ==
    IF joint_probability > Prob(1, 100) THEN NoFlag
    ELSE IF joint_probability < Prob(1, 10000)
         THEN SandbaggerRedFlag("IMPROBABLE_CONSISTENCY", "CRITICAL")
    ELSE IF joint_probability < Prob(1, 1000)
         THEN SandbaggerRedFlag("IMPROBABLE_CONSISTENCY", "HIGH")
    ELSE IF joint_probability < Prob(1, 100)
         THEN SandbaggerRedFlag("IMPROBABLE_CONSISTENCY", "MEDIUM")
    ELSE NoFlag

\* the expected scores are left out of the comparison
Disparity_Raw(casual_avg, tournament_avg, casual_expected, tournament_expected) ==
    casual_avg - tournament_avg

\* lines 222-226
Disparity(casual_avg, tournament_avg, casual_expected, tournament_expected) ==
    LET casual_vs_expected == casual_avg - casual_expected
        tournament_vs_expected == tournament_avg - tournament_expected
    IN  casual_vs_expected - tournament_vs_expected

detect_casual_vs_tournament_disparity(casual_avg, tournament_avg, casual_expected, tournament_expected) ==
    LET disparity == Disparity(casual_avg, tournament_avg,
                               casual_expected, tournament_expected)
    IN  IF disparity < Strokes(20) THEN NoFlag
        ELSE IF disparity >= Strokes(50)
             THEN SandbaggerRedFlag("CASUAL_TOURNAMENT_DISPARITY", "CRITICAL")
        ELSE IF disparity >= Strokes(35)
             THEN SandbaggerRedFlag("CASUAL_TOURNAMENT_DISPARITY", "HIGH")
        ELSE IF disparity >= Strokes(20)
             THEN SandbaggerRedFlag("CASUAL_TOURNAMENT_DISPARITY", "MEDIUM")
        ELSE NoFlag

\* a round that only matches its expected score counts as better
detect_all_scores_better_than_expected_NonStrict(scores_vs_expected) ==
    IF scores_vs_expected = <<>> THEN NoFlag
    ELSE LET all_better == \A i \in 1..Len(scores_vs_expected) : scores_vs_expected[i] <= 0
             num_rounds == Len(scores_vs_expected)
         IN  IF ~all_better THEN NoFlag
             ELSE IF num_rounds >= 5
                  THEN SandbaggerRedFlag("PERFECT_TOURNAMENT_RECORD", "HIGH")
             ELSE IF num_rounds >= 3
                  THEN SandbaggerRedFlag("PERFECT_TOURNAMENT_RECORD", "MEDIUM")
             ELSE NoFlag

detect_all_scores_better_than_expected(scores_vs_expected) ==
    IF scores_vs_expected = <<>> THEN NoFlag
    ELSE LET all_better == \A i \in 1..Len(scores_vs_expected) : scores_vs_expected[i] < 0
             num_rounds == Len(scores_vs_expected)
         IN  IF ~all_better THEN NoFlag
             ELSE IF num_rounds >= 5
                  THEN SandbaggerRedFlag("PERFECT_TOURNAMENT_RECORD", "HIGH")
             ELSE IF num_rounds >= 3
                  THEN SandbaggerRedFlag("PERFECT_TOURNAMENT_RECORD", "MEDIUM")
             ELSE NoFlag

(* ------------------------------------------------ direct calls: inputs *)
Near(S) == {x + e : x \in S, e \in {-1, 0, 1}}

AvgGrid == Near({Strokes(t) : t \in {-30, -25, -20, -15, -10, -5, 0}}) \cup {Strokes(10)}

PctGrid == Near({Pct(p) : p \in {4, 5, 10, 15, 20, 25, 30, 40}})

RatioGrid == Near({Ratio(50), Ratio(70), Ratio(90)}) \cup {0, Ratio(130)}

JointGrid == Near({Prob(1, 100), Prob(1, 1000), Prob(1, 10000)}) \cup {0, Prob(1, 2), Prob(1, 1)}

DisparityGrid == Near({Strokes(t) : t \in {0, 20, 35, 50}}) \cup {Strokes(-30), Strokes(80)}

ExpectedGrid == {Strokes(t) : t \in {-40, 0, 25}}

ScoreVsExpected == {Strokes(-10), -1, 0, 1}

SeqsUpTo(S, n) == UNION {[1..k -> S] : k \in 0..n}

NoCall == [fn |-> "none"]

\* the clients whose requests can be in progress at once
Tasks == {"t1", "t2"}

IdleTask == [pc |-> "idle"]

\* cache.py lines 20-30: the cache is empty and nothing has been dispatched
CacheInit ==
    /\ cache = <<>>
    /\ now = 0
    /\ tasks = [t \in Tasks |-> IdleTask]
    /\ stored = <<>>

NoRequest == [golfer |-> "none"]

NoResponse == [status |-> 0]

(* ------------------------- sandbagging.py: the texts of the response *)
\* n / d rounded to the nearest integer, ties to even (d > 0)
RoundHalfEven(n, d) ==
    LET q == n \div d
        r == n - q * d
    IN  IF 2 * r < d THEN q
        ELSE IF 2 * r > d THEN q + 1
        ELSE IF q % 2 = 0 THEN q ELSE q + 1

\* a number of x / unit rounded to places given by scale (round(x, 2) is scale 100)
RoundTo(x, unit, scale) == RoundHalfEven(x * scale, unit)

Abs(x) == IF x < 0 THEN -x ELSE x

\* sandbagging.py lines 302-333: the template chosen and the number formatted into it
generate_sandbagging_summary(risk_score, risk_level, tournament_avg_vs_expected, num_red_flags) ==
    IF risk_level \in {"SEVERE", "HIGH", "MODERATE"}
    THEN <<risk_level, RoundTo(Abs(tournament_avg_vs_expected), StrokeUnit, 10)>>
    ELSE <<"LOW">>

\* a critical flag changes the wording for SEVERE
generate_recommendation_Escalated(risk_level, num_critical_flags) ==
    IF risk_level = "SEVERE" /\ num_critical_flags > 0 THEN <<"SEVERE", "CRITICAL">>
    ELSE IF risk_level \in {"SEVERE", "HIGH", "MODERATE"} THEN <<risk_level>>
    ELSE <<"LOW">>

\* sandbagging.py lines 336-361
generate_recommendation(risk_level, num_critical_flags) ==
    IF risk_level \in {"SEVERE", "HIGH", "MODERATE"} THEN <<risk_level>> ELSE <<"LOW">>


RiskLevels == {"SEVERE", "HIGH", "MODERATE", "LOW"}

ScoreGrid == {0, 30, 60, 80}

(* ---------------------------------------------- direct calls: actions *)
\* One behaviour is one call of one function on one input.
CallRiskScore ==
    /\ call = NoCall
    /\ \E a \in AvgGrid, p \in PctGrid, v \in RatioGrid,
          n \in 0..MaxFlags, c \in 0..MaxCritical :
          call' = [fn |-> "calculate_sandbagging_risk_score",
                   tournament_avg_vs_expected |-> a, tournament_percentile |-> p,
                   volatility_ratio |-> v, num_red_flags |-> n, critical_flags |-> c,
                   result |-> calculate_sandbagging_risk_score(a, p, v, n, c)]
    /\ UNCHANGED <<request, response, cacheVars>>

CallTournamentExcellence ==
    /\ call = NoCall
    /\ \E a \in AvgGrid, p \in PctGrid :
          call' = [fn |-> "detect_tournament_excellence_pattern",
                   tournament_avg_vs_expected |-> a, tournament_percentile |-> p,
                   result |-> detect_tournament_excellence_pattern(a, p)]
    /\ UNCHANGED <<request, response, cacheVars>>

CallLowVolatility ==
    /\ call = NoCall
    /\ \E v \in RatioGrid :
          call' = [fn |-> "detect_low_volatility_pattern", volatility_ratio |-> v,
                   result |-> detect_low_volatility_pattern(v)]
    /\ UNCHANGED <<request, response, cacheVars>>

CallImprobable ==
    /\ call = NoCall
    /\ \E j \in JointGrid :
          call' = [fn |-> "detect_improbable_performance", joint_probability |-> j,
                   result |-> detect_improbable_performance(j)]
    /\ UNCHANGED <<request, response, cacheVars>>

CallDisparity ==
    /\ call = NoCall
    /\ \E d \in DisparityGrid, ce \in ExpectedGrid, ta \in ExpectedGrid, te \in ExpectedGrid :
          LET ca == d + ce + ta - te
          IN  call' = [fn |-> "detect_casual_vs_tournament_disparity",
                       casual_avg |-> ca, tournament_avg |-> ta,
                       casual_expected |-> ce, tournament_expected |-> te,
                       result |-> detect_casual_vs_tournament_disparity(ca, ta, ce, te)]
    /\ UNCHANGED <<request, response, cacheVars>>

CallAllBetter ==
    /\ call = NoCall
    /\ \E s \in SeqsUpTo(ScoreVsExpected, MaxList) :
          call' = [fn |-> "detect_all_scores_better_than_expected",
                   scores_vs_expected |-> s,
                   result |-> detect_all_scores_better_than_expected(s)]
    /\ UNCHANGED <<request, response, cacheVars>>

CallSummary ==
    /\ call = NoCall
    /\ \E s \in ScoreGrid, l \in RiskLevels, a \in AvgGrid, n \in 0..MaxFlags :
          call' = [fn |-> "generate_sandbagging_summary",
                   risk_score |-> s, risk_level |-> l,
                   tournament_avg_vs_expected |-> a, num_red_flags |-> n,
                   result |-> generate_sandbagging_summary(s, l, a, n)]
    /\ UNCHANGED <<request, response, cacheVars>>

CallRecommendation ==
    /\ call = NoCall
    /\ \E l \in RiskLevels, c \in 0..MaxCritical :
          call' = [fn |-> "generate_recommendation",
                   risk_level |-> l, num_critical_flags |-> c,
                   result |-> generate_recommendation(l, c)]
    /\ UNCHANGED <<request, response, cacheVars>>

InitFn ==
    /\ call = NoCall
    /\ request = NoRequest
    /\ response = NoResponse
    /\ CacheInit

NextFn ==
    \/ CallRiskScore
    \/ CallTournamentExcellence
    \/ CallLowVolatility
    \/ CallImprobable
    \/ CallDisparity
    \/ CallAllBetter
    \/ CallSummary
    \/ CallRecommendation

SpecFn == InitFn /\ [][NextFn]_vars

(* ------------------------------------------ services/probability.py *)
\* The scoring and probability functions the handler imports; their module is
\* described in sections 4.1, 4.2 and 4.5 of the specification.

\* handicap_index * slope / 113 + (course_rating - par), as a fraction over 1130:
\* handicap index and course rating are in tenths
CourseHandicapNumerator(handicap_index, course) ==
    handicap_index * course.slope_rating + 113 * (course.course_rating - 10 * course.par)

\* section 4.1: par + course handicap rounded to the nearest integer
compute_expected_score(handicap_index, course) ==
    course.par + RoundHalfEven(CourseHandicapNumerator(handicap_index, course), 1130)

\* section 4.1: recomputed from the half-round course rating, par and handicap
compute_nine_hole_expected_score(handicap_index, course) ==
    (course.par \div 2) + RoundHalfEven(CourseHandicapNumerator(handicap_index, course), 2260)

\* section 4.1: positive, non-decreasing in the handicap, within 2..12 strokes
estimate_score_std(handicap_index) ==
    IF handicap_index < 100 THEN 3
    ELSE IF handicap_index < 200 THEN 4
    ELSE 5

\* section 4.1: strictly less than the 18-hole value
estimate_nine_hole_score_std(handicap_index) == estimate_score_std(handicap_index) - 1

\* standard normal CDF in percent, tabulated at z = q / 4 for q in -12..12
NormCdfTable ==
    <<0, 0, 1, 1, 2, 4, 7, 11, 16, 23, 31, 40, 50,
      60, 69, 77, 84, 89, 93, 96, 98, 99, 99, 100, 100>>

NormCdfPct(q) ==
    IF q < -12 THEN 0
    ELSE IF q > 12 THEN 100
    ELSE NormCdfTable[q + 13]

\* section 4.5: probability of a score at or below actual, the CDF at
\* (actual + 0.5 - expected) / sigma; the quotient is taken down to a quarter
analyze_completed_round(actual, expected, sigma) ==
    NormCdfPct((2 * (2 * (actual - expected) + 1)) \div sigma)

RECURSIVE SumSeq(_)
SumSeq(s) == IF s = <<>> THEN 0 ELSE Head(s) + SumSeq(Tail(s))

RECURSIVE ProductSeq(_)
ProductSeq(s) == IF s = <<>> THEN 1 ELSE Head(s) * ProductSeq(Tail(s))

RECURSIVE Power(_, _)
Power(b, e) == IF e = 0 THEN 1 ELSE b * Power(b, e - 1)

\* section 4.5: the product of the probabilities (given in percent), 1.0 for none
compute_joint_probability_independent_rounds(probabilities) ==
    ProductSeq(probabilities) * Power(100, 4 - Len(probabilities))

(* ------------------------------------------------- routes/golf.py *)
\* statistics.mean of integers, in units of 1 / unit: exact since Len(s) divides unit
Mean(s, unit) == (SumSeq(s) * unit) \div Len(s)

RECURSIVE IsqrtIn(_, _, _)
IsqrtIn(x, lo, hi) ==
    IF lo >= hi THEN lo
    ELSE LET mid == (lo + hi + 1) \div 2
         IN  IF mid * mid <= x THEN IsqrtIn(x, mid, hi) ELSE IsqrtIn(x, lo, mid - 1)

\* floor of the square root
Isqrt(x) == IsqrtIn(x, 0, 40000)

\* statistics.stdev squared is VarianceNum / VarianceDen
VarianceNum(scores) ==
    Len(scores) * SumSeq([i \in 1..Len(scores) |-> scores[i] * scores[i]])
    - SumSeq(scores) * SumSeq(scores)

VarianceDen(scores) == Len(scores) * (Len(scores) - 1)

\* the sample standard deviation is asked for every list
StdevComputed_Always(scores) == TRUE

\* line 535: statistics.stdev is called only on more than one score
StdevComputed(scores) == Len(scores) > 1

\* statistics.stdev raises StatisticsError on fewer than two data points
StdevRaises(scores) == StdevComputed(scores) /\ Len(scores) < 2

\* line 535, in hundredths of a stroke (rounded as line 662 reports it)
tournament_volatility(scores) ==
    IF StdevComputed(scores)
    THEN (Isqrt((40000 * VarianceNum(scores)) \div VarianceDen(scores)) + 1) \div 2
    ELSE 0

\* a single round counts as normal volatility
volatility_ratio_of_NeutralForOne(scores, expected_volatility) ==
    IF expected_volatility > 0 /\ StdevComputed(scores)
    THEN Isqrt((10000 * VarianceNum(scores))
               \div (VarianceDen(scores) * expected_volatility * expected_volatility))
    ELSE Ratio(100)

\* line 539, in hundredths rounded down: exact for every < and >= against a
\* threshold given in hundredths
volatility_ratio_of(scores, expected_volatility) ==
    IF expected_volatility > 0
    THEN IF StdevComputed(scores)
         THEN Isqrt((10000 * VarianceNum(scores))
                    \div (VarianceDen(scores) * expected_volatility * expected_volatility))
         ELSE 0
    ELSE Ratio(100)

\* volatility_ratio > h / 100, decided on the squares
RatioAbove(scores, expected_volatility, h) ==
    IF expected_volatility > 0
    THEN /\ StdevComputed(scores)
         /\ 10000 * VarianceNum(scores)
               > h * h * VarianceDen(scores) * expected_volatility * expected_volatility
    ELSE Ratio(100) > h

\* lines 541-546
\* the label LOW only below half the expected volatility
volatility_vs_expected_of_HalfThreshold(scores, expected_volatility) ==
    IF volatility_ratio_of(scores, expected_volatility) < Ratio(50) THEN "LOW"
    ELSE IF RatioAbove(scores, expected_volatility, Ratio(130)) THEN "HIGH"
    ELSE "NORMAL"

volatility_vs_expected_of(scores, expected_volatility) ==
    IF volatility_ratio_of(scores, expected_volatility) < Ratio(70) THEN "LOW"
    ELSE IF RatioAbove(scores, expected_volatility, Ratio(130)) THEN "HIGH"
    ELSE "NORMAL"

\* lines 508-519 and 595-604
ExpectedFor(round_score, handicap_index, course) ==
    IF round_score.holes_played = 9
    THEN compute_nine_hole_expected_score(handicap_index, course)
    ELSE compute_expected_score(handicap_index, course)

SigmaFor(round_score, handicap_index) ==
    IF round_score.holes_played = 9
    THEN estimate_nine_hole_score_std(handicap_index)
    ELSE estimate_score_std(handicap_index)

\* lines 560-561: a flag is appended when the detector returned one
AppendFlag(red_flags, flag) == IF flag # NoFlag THEN Append(red_flags, flag) ELSE red_flags

\* line 589: truth value of request.casual_scores (None and [] are false)
CasualSupplied(req) == req.casual_scores.present /\ req.casual_scores.rounds # <<>>

NoneValue == [is_none |-> TRUE, value |-> 0]

Some(v) == [is_none |-> FALSE, value |-> v]

\* lines 501-529
strokes_from_expected_list_of(req) ==
    [i \in 1..Len(req.tournament_scores) |->
        req.tournament_scores[i].gross_score
        - ExpectedFor(req.tournament_scores[i], req.golfer.handicap_index, req.course)]

tournament_probabilities_of(req) ==
    [i \in 1..Len(req.tournament_scores) |->
        analyze_completed_round(
            req.tournament_scores[i].gross_score,
            ExpectedFor(req.tournament_scores[i], req.golfer.handicap_index, req.course),
            SigmaFor(req.tournament_scores[i], req.golfer.handicap_index))]

GrossScores(rounds) == [i \in 1..Len(rounds) |-> rounds[i].gross_score]

\* lines 551-583: the four detectors that need no casual rounds, in order
TournamentFlags(req) ==
    LET tournament_scores == GrossScores(req.tournament_scores)
        expected_volatility == estimate_score_std(req.golfer.handicap_index)
        f1 == detect_tournament_excellence_pattern(
                  Mean(strokes_from_expected_list_of(req), StrokeUnit),
                  Mean(tournament_probabilities_of(req), PctUnit))
        f2 == detect_low_volatility_pattern(
                  volatility_ratio_of(tournament_scores, expected_volatility))
        f3 == detect_improbable_performance(
                  compute_joint_probability_independent_rounds(tournament_probabilities_of(req)))
        f4 == detect_all_scores_better_than_expected(
                  [i \in 1..Len(req.tournament_scores) |->
                      strokes_from_expected_list_of(req)[i] * StrokeUnit])
    IN  AppendFlag(AppendFlag(AppendFlag(AppendFlag(<<>>, f1), f2), f3), f4)

\* lines 585-627: the fifth detector, run only when casual rounds are supplied
CasualFlag(req) ==
    IF CasualSupplied(req)
    THEN LET rounds == req.casual_scores.rounds
             casual_avg == Mean(GrossScores(rounds), StrokeUnit)
             casual_expected ==
                 Mean([i \in 1..Len(rounds) |->
                          ExpectedFor(rounds[i], req.golfer.handicap_index, req.course)],
                      StrokeUnit)
             tournament_avg == Mean(GrossScores(req.tournament_scores), StrokeUnit)
             tournament_expected ==
                 compute_expected_score(req.golfer.handicap_index, req.course) * StrokeUnit
         IN  detect_casual_vs_tournament_disparity(
                 casual_avg, tournament_avg, casual_expected, tournament_expected)
    ELSE NoFlag

\* anything but None counts as a comparison, the empty list too
has_casual_comparison_of_NotNone(req) == req.casual_scores.present

\* lines 586-590
has_casual_comparison_of(req) == CasualSupplied(req)

\* lines 587, 616 and 666: None unless casual rounds are supplied, and None
\* again when the difference is zero
casual_vs_tournament_diff_of(req) ==
    IF CasualSupplied(req)
    THEN LET diff == Mean(GrossScores(req.casual_scores.rounds), StrokeUnit)
                     - Mean(GrossScores(req.tournament_scores), StrokeUnit)
         IN  IF diff # 0 THEN Some(RoundTo(diff, StrokeUnit, 100)) ELSE NoneValue
    ELSE NoneValue

\* HIGH flags are counted as critical too
NumCritical_HighToo(red_flags) ==
    Cardinality({i \in 1..Len(red_flags) : red_flags[i].severity \in {"CRITICAL", "HIGH"}})

\* line 630
NumCritical(red_flags) ==
    Cardinality({i \in 1..Len(red_flags) : red_flags[i].severity = "CRITICAL"})

\* lines 552-627: the flags of the five detectors, in the order they are run
red_flags_of(req) == AppendFlag(TournamentFlags(req), CasualFlag(req))

\* lines 630-637: the arguments the risk scorer is called with
scorer_arguments_of(req) ==
    [tournament_avg_vs_expected |-> Mean(strokes_from_expected_list_of(req), StrokeUnit),
     tournament_percentile |-> Mean(tournament_probabilities_of(req), PctUnit),
     volatility_ratio |->
         volatility_ratio_of(GrossScores(req.tournament_scores),
                             estimate_score_std(req.golfer.handicap_index)),
     num_red_flags |-> Len(red_flags_of(req)),
     critical_flags |-> NumCritical(red_flags_of(req))]

\* lines 477-670, for a request that passed validation
analyze_sandbagging(req) ==
    LET tournament_scores == GrossScores(req.tournament_scores)
        tournament_avg == Mean(tournament_scores, StrokeUnit)
        tournament_avg_vs_expected == Mean(strokes_from_expected_list_of(req), StrokeUnit)
        tournament_percentile == Mean(tournament_probabilities_of(req), PctUnit)
        expected_volatility == estimate_score_std(req.golfer.handicap_index)
        volatility_ratio == volatility_ratio_of(tournament_scores, expected_volatility)
        joint_prob ==
            compute_joint_probability_independent_rounds(tournament_probabilities_of(req))
        red_flags == red_flags_of(req)
        arguments == scorer_arguments_of(req)
        num_critical_flags == arguments.critical_flags
        risk == calculate_sandbagging_risk_score(
                    arguments.tournament_avg_vs_expected, arguments.tournament_percentile,
                    arguments.volatility_ratio, arguments.num_red_flags,
                    arguments.critical_flags)
    IN  [status |-> 200,
         handicap_index |-> req.golfer.handicap_index,
         sandbagging_risk_score |-> risk.risk_score,
         risk_level |-> risk.risk_level,
         tournament_avg_score |-> RoundTo(tournament_avg, StrokeUnit, 100),
         tournament_avg_vs_expected |-> RoundTo(tournament_avg_vs_expected, StrokeUnit, 100),
         tournament_performance_percentile |-> RoundTo(tournament_percentile, PctUnit, 10),
         score_volatility |-> tournament_volatility(tournament_scores),
         volatility_vs_expected |->
             volatility_vs_expected_of(tournament_scores, expected_volatility),
         red_flags |-> red_flags,
         has_casual_comparison |-> has_casual_comparison_of(req),
         casual_vs_tournament_diff |-> casual_vs_tournament_diff_of(req),
         probability_all_tournament_scores |-> joint_prob,
         summary |-> generate_sandbagging_summary(
                         risk.risk_score, risk.risk_level,
                         tournament_avg_vs_expected, Len(red_flags)),
         recommendation |-> generate_recommendation(risk.risk_level, num_critical_flags)]

\* requests.py lines 546-550: tournament_scores has min_length 1
ValidRequest(req) == Len(req.tournament_scores) >= 1

ValidationError == [status |-> 422]

\* an exception that leaves the handler is answered with a server error
InternalServerError == [status |-> 500]

(* ------------------------------------------------ requests: inputs *)
MaxCasual == 1

\* handicap indexes in tenths
HandicapIndexes == {80, 180}

\* course rating in tenths
Courses == {[course_rating |-> 720, slope_rating |-> 113, par |-> 72]}

CompletedRoundScores ==
    {[gross_score |-> g, holes_played |-> 18] : g \in {80, 86, 97}}
    \cup {[gross_score |-> g, holes_played |-> 9] : g \in {41, 45}}

\* tournament_scores as sent, the empty list included
TournamentScores == SeqsUpTo(CompletedRoundScores, MaxRounds)

\* casual_scores as sent: None, or a list that may be empty
CasualScores ==
    {[present |-> FALSE, rounds |-> <<>>]}
    \cup {[present |-> TRUE, rounds |-> r] : r \in SeqsUpTo(CompletedRoundScores, MaxCasual)}

SandbaggerAnalysisRequest(h, c, t, cs) ==
    [golfer |-> [handicap_index |-> h], course |-> c,
     tournament_scores |-> t, casual_scores |-> cs]

(* ----------------------------------------------- requests: actions *)
\* a client posts a request to /analyze/sandbagging
Post ==
    /\ request = NoRequest
    /\ \E h \in HandicapIndexes, c \in Courses, t \in TournamentScores, cs \in CasualScores :
          request' = SandbaggerAnalysisRequest(h, c, t, cs)
    /\ UNCHANGED <<call, response, cacheVars>>

\* the request is validated and analyze_sandbagging answers it
Analyze ==
    /\ request # NoRequest
    /\ response = NoResponse
    /\ response' = IF ~ValidRequest(request) THEN ValidationError
                   ELSE IF StdevRaises(GrossScores(request.tournament_scores)) THEN InternalServerError
                   ELSE analyze_sandbagging(request)
    /\ UNCHANGED <<call, request, cacheVars>>

Init ==
    /\ call = NoCall
    /\ request = NoRequest
    /\ response = NoResponse
    /\ CacheInit

Next == Post \/ Analyze

Spec == Init /\ [][Next]_vars

(* ------------------------------- services/probability.py: streaks *)
\* Section 4.3 of the specification. A probability is a fraction
\* [num, den]; f(i), the probability of no run of k successes in the first i
\* trials, is NoRun(p, k, i) / p.den^i.

MaxStreak == 4

MaxMatches == 10

Fraction(n, d) == [num |-> n, den |-> d]

\* the recurrence without the factor (1 - p)
RECURSIVE NoRun_Overlapping(_, _, _)
NoRun_Overlapping(p, k, i) ==
    IF i < k THEN Power(p.den, i)
    ELSE IF i = k THEN Power(p.den, k) - Power(p.num, k)
    ELSE p.den * NoRun_Overlapping(p, k, i - 1)
         - Power(p.num, k) * p.den * NoRun_Overlapping(p, k, i - k - 1)

\* f(i) = 1 for i < k, f(k) = 1 - p^k, f(i) = f(i-1) - p^k (1-p) f(i-k-1)
RECURSIVE NoRun(_, _, _)
NoRun(p, k, i) ==
    IF i < k THEN Power(p.den, i)
    ELSE IF i = k THEN Power(p.den, k) - Power(p.num, k)
    ELSE p.den * NoRun(p, k, i - 1)
         - Power(p.num, k) * (p.den - p.num) * NoRun(p, k, i - k - 1)

\* probabilityAllConsecutive: p^k
compute_consecutive_scores_probability(p, k) == Fraction(Power(p.num, k), Power(p.den, k))

\* probabilityStreakWithinMatches: 1 - f(m), and 0 when k > m
compute_consecutive_in_n_matches_probability(p, k, m) ==
    IF k > m THEN Fraction(0, 1)
    ELSE Fraction(Power(p.den, m) - NoRun(p, k, m), Power(p.den, m))

\* section 4.2: the CDF at (target + 0.5 - expected) / sigma, in percent
compute_single_round_probability(expected_score, sigma, target_score) ==
    NormCdfPct((2 * (2 * (target_score - expected_score) + 1)) \div sigma)

Probabilities == {Fraction(0, 2), Fraction(1, 2), Fraction(2, 2), Fraction(1, 4), Fraction(3, 4)}

CallStreak ==
    /\ call = NoCall
    /\ \E p \in Probabilities, k \in 1..MaxStreak, m \in 1..MaxMatches :
          call' = [fn |-> "compute_consecutive_in_n_matches_probability",
                   p |-> p, k |-> k, m |-> m,
                   result |-> compute_consecutive_in_n_matches_probability(p, k, m)]
    /\ UNCHANGED <<request, response, cacheVars>>

(* --------------- routes/golf.py: calculate_consecutive_scores_probability *)
MaxConsecutive == 3

MaxTotal == 3

\* requests.py line 310: le=20
MaxConsecutiveCount == 20

\* requests.py line 316: le=100
MaxTotalMatches == 100

\* total_matches must cover the streak
ValidConsecutiveRequest_CrossChecked(req) ==
    /\ req.consecutive_count >= 1
    /\ req.consecutive_count <= MaxConsecutiveCount
    /\ req.total_matches.is_none
          \/ (req.total_matches.value >= req.consecutive_count
              /\ req.total_matches.value <= MaxTotalMatches)
    /\ req.holes_per_round \in {9, 18}

\* requests.py lines 301-321: each field is validated on its own
ValidConsecutiveRequest(req) ==
    /\ req.consecutive_count >= 1
    /\ req.consecutive_count <= MaxConsecutiveCount
    /\ req.total_matches.is_none
          \/ (req.total_matches.value >= 1 /\ req.total_matches.value <= MaxTotalMatches)
    /\ req.holes_per_round \in {9, 18}

\* round(x, 6) of a fraction whose denominator is a power of 100, in millionths
RoundMicro(x) ==
    IF x.den <= 1000000 THEN x.num * (1000000 \div x.den)
    ELSE RoundHalfEven(x.num, x.den \div 1000000)

\* golf.py lines 268-336
calculate_consecutive_scores_probability(req) ==
    LET expected_score ==
            IF req.holes_per_round = 9
            THEN compute_nine_hole_expected_score(req.golfer.handicap_index, req.course)
            ELSE compute_expected_score(req.golfer.handicap_index, req.course)
        sigma ==
            IF req.holes_per_round = 9
            THEN estimate_nine_hole_score_std(req.golfer.handicap_index)
            ELSE estimate_score_std(req.golfer.handicap_index)
        single_prob ==
            Fraction(compute_single_round_probability(
                         expected_score, sigma, req.target.target_score), 100)
        prob_all_consecutive ==
            compute_consecutive_scores_probability(single_prob, req.consecutive_count)
        prob_streak_in_matches ==
            IF ~req.total_matches.is_none
            THEN Some(RoundMicro(compute_consecutive_in_n_matches_probability(
                                     single_prob, req.consecutive_count,
                                     req.total_matches.value)))
            ELSE NoneValue
    IN  [status |-> 200,
         expected_score |-> expected_score,
         score_std |-> sigma,
         target_score |-> req.target.target_score,
         consecutive_count |-> req.consecutive_count,
         holes_per_round |-> req.holes_per_round,
         single_round_probability |-> RoundMicro(single_prob),
         probability_all_consecutive |-> RoundMicro(prob_all_consecutive),
         total_matches |-> req.total_matches,
         probability_streak_in_matches |-> prob_streak_in_matches]

TargetScores == {40, 44, 85, 90}

\* total_matches as sent: absent, or a number
TotalMatches == {NoneValue} \cup {Some(m) : m \in 0..MaxTotal}

ConsecutiveScoresProbabilityRequest(h, c, t, k, m, holes) ==
    [endpoint |-> "consecutive-scores", golfer |-> [handicap_index |-> h], course |-> c, target |-> [target_score |-> t], consecutive_count |-> k, total_matches |-> m, holes_per_round |-> holes]

\* a client posts a request to the consecutive-scores endpoint
PostConsecutive ==
    /\ request = NoRequest
    /\ \E h \in HandicapIndexes, c \in Courses, t \in TargetScores,
          k \in 0..MaxConsecutive, m \in TotalMatches, holes \in {9, 18} :
          request' = ConsecutiveScoresProbabilityRequest(h, c, t, k, m, holes)
    /\ UNCHANGED <<call, response, cacheVars>>

\* the request is validated and the handler answers it
CalculateConsecutive ==
    /\ request # NoRequest
    /\ response = NoResponse
    /\ response' = IF ValidConsecutiveRequest(request)
                   THEN calculate_consecutive_scores_probability(request)
                   ELSE ValidationError
    /\ UNCHANGED <<call, request, cacheVars>>

NextStreak == CallStreak \/ PostConsecutive \/ CalculateConsecutive

SpecStreak == Init /\ [][NextStreak]_vars

(* ------------------------------------- middleware/cache.py: the cache *)
\* A request is its method, its path as the list of its segments and its query
\* string, here a number: n stands for "q=n" and 0 for no query string.
Request(method, path, query) == [method |-> method, path |-> path, query |-> query]

\* datetime.now() advances at most to MaxClock seconds
MaxClock == 3

\* line 20: the constructor's ttl_seconds, here one second
ttl_seconds == 1

\* line 71: the size above which a dispatch sweeps the cache
CleanupThreshold == 100

\* line 67: request.url.path.startswith("/api/")
StartsWithApi(path) == Len(path) >= 2 /\ path[1] = "api"

\* every GET goes through the cache
IsCacheable_AnyPath(req) == req.method = "GET"

\* every request under /api/ goes through the cache, whatever its method
IsCacheable_AnyMethod(req) == StartsWithApi(req.path)

\* lines 63 and 67: only these requests go through the cache
IsCacheable(req) == req.method = "GET" /\ StartsWithApi(req.path)

\* the query string is left out of the key
_generate_cache_key_NoQuery(req) == <<"md5", req.method, req.path>>

\* lines 32-41: the digest of the JSON text of method, path and query; the
\* JSON text is one-to-one and digests of different texts are taken to differ
_generate_cache_key(req) == <<"md5", req.method, req.path, req.query>>

\* an entry lives one second longer
_is_expired_Late(cached_time) == now - cached_time > ttl_seconds + 1

\* lines 43-45
_is_expired(cached_time) == now - cached_time > ttl_seconds

\* lines 47-54: the cache without its expired entries
_cleanup_expired(c) == [k \in {x \in DOMAIN c : ~_is_expired(c[x].cached_time)} |-> c[k]]

\* lines 71-72
\* the sweep already runs at the threshold itself
Swept_AtThreshold(c) == IF Cardinality(DOMAIN c) >= CleanupThreshold THEN _cleanup_expired(c) ELSE c

Swept(c) == IF Cardinality(DOMAIN c) > CleanupThreshold THEN _cleanup_expired(c) ELSE c

\* the expired entry stays
Deleted_Kept(c, key) == c

\* line 90: del self.cache[cache_key]
Deleted(c, key) == [k \in DOMAIN c \ {key} |-> c[k]]

\* lines 103-107: self.cache[cache_key] = ...
\* an entry already there is not replaced
Assigned_KeepFirst(c, key, value) == [k \in DOMAIN c \cup {key} |-> IF k \in DOMAIN c THEN c[k] ELSE value]

Assigned(c, key, value) == [k \in DOMAIN c \cup {key} |-> IF k = key THEN value ELSE c[k]]

\* lines 83-87: the response built from an entry
HitResponse(entry) ==
    [status |-> 200, body |-> entry.body, headers |-> entry.headers,
     x_cache |-> "HIT", downstream_called |-> FALSE]

\* lines 110-115: the response built from the body read from downstream
MissResponse(r) ==
    [status |-> r.status, body |-> r.body, headers |-> r.headers,
     x_cache |-> "MISS", downstream_called |-> TRUE]

\* lines 64, 68 and 117: the downstream response as it is
Passed(r) ==
    [status |-> r.status, body |-> r.body, headers |-> r.headers,
     x_cache |-> "NONE", downstream_called |-> TRUE]

\* lines 56-93, up to the await of call_next: one step, nothing is awaited in it
Dispatch(t, req) ==
    /\ tasks[t].pc = "idle"
    /\ IF ~IsCacheable(req)
       THEN /\ tasks' = [tasks EXCEPT ![t] = [pc |-> "forward", req |-> req]]
            /\ UNCHANGED cache
       ELSE LET swept == Swept(cache)
                cache_key == _generate_cache_key(req)
            IN  IF cache_key \in DOMAIN swept
                THEN IF ~_is_expired(swept[cache_key].cached_time)
                     THEN /\ tasks' = [tasks EXCEPT ![t] =
                                          [pc |-> "done", req |-> req,
                                           response |-> HitResponse(swept[cache_key])]]
                          /\ cache' = swept
                     ELSE /\ tasks' = [tasks EXCEPT ![t] =
                                          [pc |-> "awaiting", req |-> req,
                                           found_expired |-> TRUE, since |-> now]]
                          /\ cache' = Deleted(swept, cache_key)
                ELSE /\ tasks' = [tasks EXCEPT ![t] =
                                     [pc |-> "awaiting", req |-> req,
                                      found_expired |-> FALSE, since |-> now]]
                     /\ cache' = swept
    /\ UNCHANGED <<call, request, response, now, stored>>

\* lines 93-117 (and the return of lines 64 and 68): call_next has answered r
\* and its body has been read; the store and the return follow without a
\* further await
Respond(t, r) ==
    /\ tasks[t].pc \in {"forward", "awaiting"}
    /\ IF tasks[t].pc = "awaiting" /\ r.status = 200
       THEN /\ cache' = Assigned(cache, _generate_cache_key(tasks[t].req),
                                 [body |-> r.body, headers |-> r.headers,
                                  cached_time |-> now])
            /\ stored' = Assigned(stored, tasks[t].req, [body |-> r.body, time |-> now])
            /\ tasks' = [tasks EXCEPT ![t] =
                            [pc |-> "done", req |-> tasks[t].req,
                             response |-> MissResponse(r)]]
       ELSE /\ tasks' = [tasks EXCEPT ![t] =
                            [pc |-> "done", req |-> tasks[t].req,
                             response |-> Passed(r)]]
            /\ UNCHANGED <<cache, stored>>
    /\ UNCHANGED <<call, request, response, now>>

\* the client has its response
Receive(t) ==
    /\ tasks[t].pc = "done"
    /\ tasks' = [tasks EXCEPT ![t] = IdleTask]
    /\ UNCHANGED <<call, request, response, cache, now, stored>>

\* a second passes
Tick ==
    /\ now < MaxClock
    /\ now' = now + 1
    /\ UNCHANGED <<call, request, response, cache, tasks, stored>>

(* ------------------------------------------- the cache: its clients *)
Requests ==
    {Request("GET", <<"api", "a">>, 1), Request("GET", <<"api", "a">>, 2),
     Request("POST", <<"api", "a">>, 1), Request("GET", <<"health">>, 0),
     Request("GET", <<"api">>, 0)}

Headers == [content_type |-> "application/json"]

\* what the downstream handler can answer
DownstreamResponses ==
    {[status |-> 200, body |-> b, headers |-> Headers] : b \in {"b1", "b2"}}
    \cup {[status |-> 404, body |-> "not found", headers |-> Headers]}

Send == \E t \in Tasks, req \in Requests : Dispatch(t, req)

Answer == \E t \in Tasks, r \in DownstreamResponses : Respond(t, r)

Deliver == \E t \in Tasks : Receive(t)

NextCache == Send \/ Answer \/ Deliver \/ Tick

SpecCache == Init /\ [][NextCache]_vars

(* ----------------------------- the cache: one client, ever new queries *)
\* the number of different query strings the client sends
MaxKeys == 103

\* a GET under /api/ with a query string not sent before
FillRequest == Request("GET", <<"api", "a">>, Cardinality(DOMAIN cache) + 1)

Fill ==
    /\ Cardinality(DOMAIN cache) < MaxKeys
    /\ Dispatch("t1", FillRequest)

FillAnswer == Respond("t1", [status |-> 200, body |-> "b1", headers |-> Headers])

FillDeliver == Receive("t1")

NextFill == Fill \/ FillAnswer \/ FillDeliver

SpecCacheFill == Init /\ [][NextFill]_vars

(* ------------------- the cache: one client, a store that fills and ages *)
\* a second passes once the store is about to reach the threshold
LateTick ==
    /\ Cardinality(DOMAIN cache) >= CleanupThreshold - 1
    /\ Tick

NextSweep == Fill \/ FillAnswer \/ FillDeliver \/ LateTick

SpecCacheSweep == Init /\ [][NextSweep]_vars

(* ------------------------ the cache in front of the routes of golf.py *)
\* golf.py lines 57-58, 116-117, 191-192, 259-260, 339-340, 467-468: the
\* paths of the router, every one registered with router.post
EndpointPaths ==
    {<<"probability", "single-round">>, <<"probability", "multi-round">>,
     <<"probability", "milestones">>, <<"probability", "consecutive">>,
     <<"analyze", "completed-rounds">>, <<"analyze", "sandbagging">>}

\* the router (golf.py line 54) carries no prefix of its own: the paths are
\* taken as mounted at the root and as mounted under /api
EndpointRequests ==
    {Request("POST", prefix \o path, 0) : prefix \in {<<>>, <<"api">>}, path \in EndpointPaths}

\* a GET on the path of an endpoint, which goes through the cache
EndpointGet == Request("GET", <<"api", "analyze", "sandbagging">>, 0)

SendGet == Dispatch("t1", EndpointGet)

SendPost == \E req \in EndpointRequests : Dispatch("t2", req)

NextRoutes == SendGet \/ SendPost \/ Answer \/ Deliver \/ Tick

SpecCacheRoutes == Init /\ [][NextRoutes]_vars

(* ------------------------------------------------------ claims C1 - C9 *)
IsRiskCall == call.fn = "calculate_sandbagging_risk_score"

IsExcellenceCall == call.fn = "detect_tournament_excellence_pattern"

IsLowVolatilityCall == call.fn = "detect_low_volatility_pattern"

IsImprobableCall == call.fn = "detect_improbable_performance"

IsDisparityCall == call.fn = "detect_casual_vs_tournament_disparity"

IsAllBetterCall == call.fn = "detect_all_scores_better_than_expected"

\* Sum of the five contributions before the cap of line 76, from the arguments of the call
RawOfCall ==
    TournamentPoints(call.tournament_avg_vs_expected)
    + PercentilePoints(call.tournament_percentile)
    + VolatilityPoints(call.volatility_ratio)
    + FlagPoints(call.num_red_flags)
    + CriticalPoints(call.critical_flags)

\* C1: with non-negative flag counts, the risk score returned by
\* calculate_sandbagging_risk_score lies in 0..100 inclusive.
C1_ScoreInRange ==
    IsRiskCall => (call.result.risk_score >= 0 /\ call.result.risk_score <= 100)

\* a call whose contributions add up to more than 100 and that returned 100
C1_Witness ==
    /\ IsRiskCall
    /\ RawOfCall > 100
    /\ call.result.risk_score = 100

\* Arguments for which a factor contributes no points
NeutralAvg == Strokes(10)

NeutralPct == Pct(40)

NeutralRatio == Ratio(130)

\* The score given by one factor alone, every other argument neutral
P1(a) == calculate_sandbagging_risk_score(a, NeutralPct, NeutralRatio, 0, 0).risk_score

P2(p) == calculate_sandbagging_risk_score(NeutralAvg, p, NeutralRatio, 0, 0).risk_score

P3(v) == calculate_sandbagging_risk_score(NeutralAvg, NeutralPct, v, 0, 0).risk_score

\* C2: the risk score is exactly min(100, P1 + P2 + P3 + min(3*num_red_flags, 15)
\* + 10*critical_flags), where P1 <= 40 depends on tournament_avg_vs_expected
\* alone, P2 <= 25 on tournament_percentile alone, P3 <= 20 on volatility_ratio alone.
C2_ScoreFormula ==
    IsRiskCall =>
        /\ call.result.risk_score =
              Min(100, P1(call.tournament_avg_vs_expected)
                       + P2(call.tournament_percentile)
                       + P3(call.volatility_ratio)
                       + Min(3 * call.num_red_flags, 15)
                       + 10 * call.critical_flags)
        /\ P1(call.tournament_avg_vs_expected) \in 0..40
        /\ P2(call.tournament_percentile) \in 0..25
        /\ P3(call.volatility_ratio) \in 0..20

\* every term is at its maximum or above its cap: 40 + 25 + 20 + 15 (six flags
\* would be 18) + 10, capped
C2_Witness ==
    /\ IsRiskCall
    /\ call.tournament_avg_vs_expected < Strokes(-20)
    /\ call.tournament_percentile < Pct(5)
    /\ call.volatility_ratio < Ratio(50)
    /\ call.num_red_flags = 6
    /\ call.critical_flags = 1
    /\ call.result.risk_score = 100

\* C3: the level is SEVERE exactly when the returned (capped) score s >= 75, HIGH
\* exactly when 50 <= s < 75, MODERATE exactly when 25 <= s < 50, LOW exactly when s < 25.
C3_LevelThresholds ==
    IsRiskCall =>
        LET s == call.result.risk_score
            l == call.result.risk_level
        IN  /\ l \in {"SEVERE", "HIGH", "MODERATE", "LOW"}
            /\ (l = "SEVERE") <=> (s >= 75)
            /\ (l = "HIGH") <=> (s >= 50 /\ s < 75)
            /\ (l = "MODERATE") <=> (s >= 25 /\ s < 50)
            /\ (l = "LOW") <=> (s < 25)

\* a score of exactly 75 is SEVERE
C3_Witness ==
    /\ IsRiskCall
    /\ call.result.risk_score = 75
    /\ call.result.risk_level = "SEVERE"

\* C4: with strokes-vs-expected -3.0 and percentile 4 the excellence detector
\* returns a CRITICAL TOURNAMENT_EXCELLENCE flag, and with that flag among at
\* least 2 flags the score is >= 75 and the level SEVERE, whatever the volatility ratio.
C4_CriticalExample ==
    /\ (IsExcellenceCall /\ call.tournament_avg_vs_expected = Strokes(-30)
                         /\ call.tournament_percentile = Pct(4))
          => call.result = SandbaggerRedFlag("TOURNAMENT_EXCELLENCE", "CRITICAL")
    /\ (IsRiskCall /\ call.tournament_avg_vs_expected = Strokes(-30)
                   /\ call.tournament_percentile = Pct(4)
                   /\ call.num_red_flags >= 2
                   /\ call.critical_flags >= 1)
          => (call.result.risk_score >= 75 /\ call.result.risk_level = "SEVERE")

\* the weakest case: two flags, one of them critical, no volatility points: 81
C4_Witness ==
    /\ IsRiskCall
    /\ call.tournament_avg_vs_expected = Strokes(-30)
    /\ call.tournament_percentile = Pct(4)
    /\ call.num_red_flags = 2
    /\ call.critical_flags = 1
    /\ call.volatility_ratio >= Ratio(90)
    /\ call.result.risk_score = 81
    /\ call.result.risk_level = "SEVERE"

\* C5 as stated: a flag whenever the average is <= -0.5, none above -0.5.
C5_Original ==
    IsExcellenceCall =>
        /\ (call.tournament_avg_vs_expected <= Strokes(-5)) => (call.result # NoFlag)
        /\ (call.tournament_avg_vs_expected > Strokes(-5)) => (call.result = NoFlag)

\* C5 amended: the detector returns a TOURNAMENT_EXCELLENCE flag exactly when
\* the average is <= -1.0 and the percentile is below 30; it returns no flag
\* when the average is -0.5 or above (nor between -1.0 and -0.5).
C5_Amended ==
    IsExcellenceCall =>
        /\ (call.result # NoFlag) <=>
              (call.tournament_avg_vs_expected <= Strokes(-10)
               /\ call.tournament_percentile < Pct(30))
        /\ (call.result # NoFlag) => (call.result.flag_type = "TOURNAMENT_EXCELLENCE")
        /\ (call.tournament_avg_vs_expected >= Strokes(-5)) => (call.result = NoFlag)

\* the average is exactly -1.0 and the detector flags it
C5_Witness ==
    /\ IsExcellenceCall
    /\ call.tournament_avg_vs_expected = Strokes(-10)
    /\ call.result.flag_type = "TOURNAMENT_EXCELLENCE"

\* C6: a LOW_VOLATILITY flag exactly when the ratio is below 0.7: HIGH below
\* 0.5, MEDIUM for 0.5 <= ratio < 0.7, no flag for ratio >= 0.7.
C6_LowVolatility ==
    IsLowVolatilityCall =>
        LET r == call.volatility_ratio
        IN  /\ (r < Ratio(50)) => (call.result = SandbaggerRedFlag("LOW_VOLATILITY", "HIGH"))
            /\ (r >= Ratio(50) /\ r < Ratio(70)) => (call.result = SandbaggerRedFlag("LOW_VOLATILITY", "MEDIUM"))
            /\ (r >= Ratio(70)) => (call.result = NoFlag)

\* a ratio of exactly 0.5 is MEDIUM
C6_Witness ==
    /\ IsLowVolatilityCall
    /\ call.volatility_ratio = Ratio(50)
    /\ call.result.severity = "MEDIUM"

\* C7: an IMPROBABLE_CONSISTENCY flag exactly when the joint probability is
\* below 0.01 (none at exactly 0.01): CRITICAL below 0.0001, HIGH for
\* 0.0001 <= p < 0.001, MEDIUM for 0.001 <= p < 0.01.
C7_Improbable ==
    IsImprobableCall =>
        LET j == call.joint_probability
        IN  /\ (j < Prob(1, 10000))
                 => (call.result = SandbaggerRedFlag("IMPROBABLE_CONSISTENCY", "CRITICAL"))
            /\ (j >= Prob(1, 10000) /\ j < Prob(1, 1000))
                 => (call.result = SandbaggerRedFlag("IMPROBABLE_CONSISTENCY", "HIGH"))
            /\ (j >= Prob(1, 1000) /\ j < Prob(1, 100))
                 => (call.result = SandbaggerRedFlag("IMPROBABLE_CONSISTENCY", "MEDIUM"))
            /\ (j >= Prob(1, 100)) => (call.result = NoFlag)

\* a joint probability of exactly 0.01 passes the guard of line 176 and falls
\* through every branch
C7_Witness ==
    /\ IsImprobableCall
    /\ call.joint_probability = Prob(1, 100)
    /\ call.result = NoFlag

AllNegative(s) == \A i \in 1..Len(s) : s[i] < 0

\* C8: a PERFECT_TOURNAMENT_RECORD flag only if every round's
\* strokes-vs-expected is strictly negative; then HIGH for 5 or more rounds,
\* MEDIUM for 3 or 4, no flag for fewer than 3 rounds or an empty list.
C8_PerfectRecord ==
    IsAllBetterCall =>
        LET s == call.scores_vs_expected
        IN  /\ (call.result # NoFlag) =>
                  (AllNegative(s) /\ call.result.flag_type = "PERFECT_TOURNAMENT_RECORD")
            /\ (AllNegative(s) /\ Len(s) >= 5) => (call.result.severity = "HIGH")
            /\ (AllNegative(s) /\ Len(s) \in {3, 4}) => (call.result.severity = "MEDIUM")
            /\ (Len(s) < 3) => (call.result = NoFlag)

\* five rounds, each better than expected
C8_Witness ==
    /\ IsAllBetterCall
    /\ Len(call.scores_vs_expected) = 5
    /\ AllNegative(call.scores_vs_expected)
    /\ call.result.severity = "HIGH"

\* C9: with disparity = (casual_avg - casual_expected) - (tournament_avg -
\* tournament_expected): no flag below 2.0, MEDIUM for 2.0 <= d < 3.5, HIGH for
\* 3.5 <= d < 5.0, CRITICAL for d >= 5.0.
C9_Disparity ==
    IsDisparityCall =>
        LET d == (call.casual_avg - call.casual_expected)
                 - (call.tournament_avg - call.tournament_expected)
        IN  /\ (d < Strokes(20)) => (call.result = NoFlag)
            /\ (d >= Strokes(20) /\ d < Strokes(35))
                 => (call.result = SandbaggerRedFlag("CASUAL_TOURNAMENT_DISPARITY", "MEDIUM"))
            /\ (d >= Strokes(35) /\ d < Strokes(50))
                 => (call.result = SandbaggerRedFlag("CASUAL_TOURNAMENT_DISPARITY", "HIGH"))
            /\ (d >= Strokes(50))
                 => (call.result = SandbaggerRedFlag("CASUAL_TOURNAMENT_DISPARITY", "CRITICAL"))

\* a disparity of exactly 3.5 with non-zero expected scores is HIGH
C9_Witness ==
    /\ IsDisparityCall
    /\ call.casual_expected # call.tournament_expected
    /\ call.tournament_avg # call.tournament_expected
    /\ (call.casual_avg - call.casual_expected)
          - (call.tournament_avg - call.tournament_expected) = Strokes(35)
    /\ call.result.severity = "HIGH"

(* ---------------------------------------------------------- claim C10 *)
Answered == response # NoResponse /\ response.status = 200

\* the tournament statistics of a response
TournamentOutputs(r) ==
    <<r.tournament_avg_score, r.tournament_avg_vs_expected,
      r.tournament_performance_percentile, r.score_volatility,
      r.volatility_vs_expected, r.probability_all_tournament_scores>>

\* the flags of the four detectors that need no casual rounds
OtherFlags(red_flags) == SelectSeq(red_flags, LAMBDA f : f.flag_type # "CASUAL_TOURNAMENT_DISPARITY")

HasDisparityFlag(red_flags) ==
    \E i \in 1..Len(red_flags) : red_flags[i].flag_type = "CASUAL_TOURNAMENT_DISPARITY"

\* the casual histories that are supplied: present and not empty
SuppliedCasualScores == {cs \in CasualScores : cs.present /\ cs.rounds # <<>>}

CasualAbsentOrEmpty == ~request.casual_scores.present \/ request.casual_scores.rounds = <<>>

\* C10: when casual_scores is absent or empty the analysis reports
\* has_casual_comparison = false, a null casual_vs_tournament_diff and no
\* CASUAL_TOURNAMENT_DISPARITY flag, and the tournament statistics and the
\* flags of the other four detectors are what they would be with any casual
\* rounds supplied.
C10_CasualOnlyIfSupplied ==
    (Answered /\ CasualAbsentOrEmpty) =>
        /\ response.has_casual_comparison = FALSE
        /\ response.casual_vs_tournament_diff = NoneValue
        /\ ~HasDisparityFlag(response.red_flags)
        /\ \A cs \in SuppliedCasualScores :
              LET with == analyze_sandbagging([request EXCEPT !.casual_scores = cs])
              IN  /\ TournamentOutputs(with) = TournamentOutputs(response)
                  /\ OtherFlags(with.red_flags) = response.red_flags

\* an empty casual list was sent, the analysis raised flags, and some casual
\* history would have added a disparity flag to them
C10_Witness ==
    /\ Answered
    /\ request.casual_scores.present
    /\ request.casual_scores.rounds = <<>>
    /\ Len(response.red_flags) >= 2
    /\ \E cs \in SuppliedCasualScores :
          HasDisparityFlag(analyze_sandbagging([request EXCEPT !.casual_scores = cs]).red_flags)

(* ------------------------------------------------------------------ C11 *)
IsSummaryCall == call.fn = "generate_sandbagging_summary"

IsRecommendationCall == call.fn = "generate_recommendation"

\* C11 as stated: the summary and the recommendation are determined by the risk
\* level: any other call with the same risk_level returns the same string.
C11_Original ==
    /\ IsSummaryCall =>
          \A s \in ScoreGrid, a \in AvgGrid, n \in 0..MaxFlags :
             generate_sandbagging_summary(s, call.risk_level, a, n) = call.result
    /\ IsRecommendationCall =>
          \A c \in 0..MaxCritical :
             generate_recommendation(call.risk_level, c) = call.result

\* C11 amended: the risk level alone selects the template of the summary; the
\* summary string is determined by the risk level and the absolute tournament
\* average to one decimal (for LOW by the level alone), never by the risk score
\* or the number of flags; the recommendation is determined by the level alone.
C11_Amended ==
    /\ IsSummaryCall =>
          /\ \A s \in ScoreGrid, a \in AvgGrid, n \in 0..MaxFlags :
                generate_sandbagging_summary(s, call.risk_level, a, n)[1] = call.result[1]
          /\ \A s \in ScoreGrid, n \in 0..MaxFlags :
                generate_sandbagging_summary(s, call.risk_level,
                                             call.tournament_avg_vs_expected, n) = call.result
          /\ \A s \in ScoreGrid, a \in AvgGrid, n \in 0..MaxFlags :
                RoundTo(Abs(a), StrokeUnit, 10)
                    = RoundTo(Abs(call.tournament_avg_vs_expected), StrokeUnit, 10)
                => generate_sandbagging_summary(s, call.risk_level, a, n) = call.result
          /\ call.risk_level = "LOW" =>
                \A s \in ScoreGrid, a \in AvgGrid, n \in 0..MaxFlags :
                   generate_sandbagging_summary(s, call.risk_level, a, n) = call.result
    /\ IsRecommendationCall =>
          \A c \in 0..MaxCritical :
             generate_recommendation(call.risk_level, c) = call.result

\* two summaries of the same level that differ, and a recommendation asked with
\* critical flags
C11_Witness ==
    \/ /\ IsSummaryCall
       /\ call.risk_level = "SEVERE"
       /\ call.num_red_flags > 0
       /\ \E a \in AvgGrid :
             generate_sandbagging_summary(call.risk_score, "SEVERE", a, call.num_red_flags)
                 # call.result
    \/ /\ IsRecommendationCall
       /\ call.risk_level = "SEVERE"
       /\ call.num_critical_flags > 0
       /\ call.result = <<"SEVERE">>

(* ------------------------------------------------------------------ C19 *)
\* the severities of a flag in increasing order, no flag lowest
SeverityRank(flag) ==
    IF flag = NoFlag THEN 0
    ELSE IF flag.severity = "MEDIUM" THEN 1
    ELSE IF flag.severity = "HIGH" THEN 2
    ELSE 3

\* the tiers as the claim states them
ExcellenceTier(avg, pct) ==
    IF avg <= Strokes(-25) /\ pct < Pct(10) THEN 3
    ELSE IF avg <= Strokes(-15) /\ pct < Pct(20) THEN 2
    ELSE IF avg <= Strokes(-10) /\ pct < Pct(30) THEN 1
    ELSE 0

\* C19: the tournament-excellence severity is CRITICAL exactly when avg <= -2.5
\* and percentile < 10, otherwise HIGH exactly when avg <= -1.5 and percentile
\* < 20, otherwise MEDIUM exactly when avg <= -1.0 and percentile < 30,
\* otherwise there is no flag; for a fixed percentile a lower average never
\* gives a less severe result.
C19_ExcellenceTiers ==
    IsExcellenceCall =>
        /\ SeverityRank(call.result)
              = ExcellenceTier(call.tournament_avg_vs_expected, call.tournament_percentile)
        /\ (call.result # NoFlag) =>
              /\ call.result.flag_type = "TOURNAMENT_EXCELLENCE"
              /\ call.result.severity \in {"MEDIUM", "HIGH", "CRITICAL"}
        /\ \A a \in AvgGrid :
              a <= call.tournament_avg_vs_expected =>
                 SeverityRank(detect_tournament_excellence_pattern(a, call.tournament_percentile))
                     >= SeverityRank(call.result)

\* the average is exactly -2.5 with a percentile just below 10: CRITICAL, and
\* a higher average on the grid is less severe
C19_Witness ==
    /\ IsExcellenceCall
    /\ call.tournament_avg_vs_expected = Strokes(-25)
    /\ call.tournament_percentile = Pct(10) - 1
    /\ call.result = SandbaggerRedFlag("TOURNAMENT_EXCELLENCE", "CRITICAL")
    /\ \E a \in AvgGrid :
          /\ a > call.tournament_avg_vs_expected
          /\ SeverityRank(detect_tournament_excellence_pattern(a, call.tournament_percentile)) = 2

(* ------------------------------------------------------------------ C12 *)
OneTournamentRound == request # NoRequest /\ Len(request.tournament_scores) = 1

\* C12: an analysis with exactly one tournament round does not raise: the
\* sample standard deviation is not computed for it, the score volatility is
\* 0.0 and the answer carries a risk score and a risk level.
C12_OneRound ==
    (OneTournamentRound /\ response # NoResponse) =>
        /\ ~StdevComputed(GrossScores(request.tournament_scores))
        /\ response.status = 200
        /\ response.score_volatility = 0
        /\ response.sandbagging_risk_score \in 0..100
        /\ response.risk_level \in RiskLevels

\* a request with one tournament round has been answered
C12_Witness ==
    /\ OneTournamentRound
    /\ response # NoResponse
    /\ response.status = 200
    /\ response.score_volatility = 0
    /\ response.volatility_vs_expected = "LOW"

(* ------------------------------------------------------------------ C17 *)
IsStreakCall == call.fn = "compute_consecutive_in_n_matches_probability"

IsConsecutiveRequest == request # NoRequest /\ request.endpoint = "consecutive-scores"

\* a request whose fields are each in range and whose total_matches is smaller
\* than its consecutive_count
ShortOfMatches ==
    /\ IsConsecutiveRequest
    /\ request.consecutive_count \in 1..MaxConsecutiveCount
    /\ ~request.total_matches.is_none
    /\ request.total_matches.value >= 1
    /\ request.total_matches.value < request.consecutive_count

\* C17: the streak probability with k > m is exactly 0, not an error; a
\* consecutive-scores request with total_matches smaller than consecutive_count
\* is accepted, both numbers are passed through unchanged, and
\* probability_streak_in_matches is 0.
C17_StreakLongerThanMatches ==
    /\ (IsStreakCall /\ call.k > call.m) => call.result = Fraction(0, 1)
    /\ (ShortOfMatches /\ response # NoResponse) =>
          /\ response.status = 200
          /\ response.consecutive_count = request.consecutive_count
          /\ response.total_matches = request.total_matches
          /\ response.probability_streak_in_matches = Some(0)

\* such a request was answered although a single round succeeds with positive
\* probability
C17_Witness ==
    /\ ShortOfMatches
    /\ response # NoResponse
    /\ response.status = 200
    /\ response.single_round_probability > 0
    /\ response.probability_all_consecutive > 0
    /\ response.probability_streak_in_matches = Some(0)

(* ------------------------------------------------------------------ C18 *)
FairCoinRunOfThreeInTen ==
    IsStreakCall /\ call.p = Fraction(1, 2) /\ call.k = 3 /\ call.m = 10

\* x is v / 10000 to four decimals
ApproximatelyTenThousandths(x, v) ==
    /\ 2 * (10000 * x.num - v * x.den) <= x.den
    /\ 2 * (v * x.den - 10000 * x.num) <= x.den

\* C18 as stated: for p = 0.5, k = 3, m = 10 the probability of at least one
\* run of 3 successes in 10 trials, 1 - f(10), is approximately 0.8282.
C18_Original ==
    FairCoinRunOfThreeInTen => ApproximatelyTenThousandths(call.result, 8282)

\* C18 amended: for p = 0.5, k = 3, m = 10 the recurrence gives
\* 1 - f(10) = 520/1024, approximately 0.5078.
C18_Amended ==
    FairCoinRunOfThreeInTen =>
        /\ call.result = Fraction(520, 1024)
        /\ ApproximatelyTenThousandths(call.result, 5078)

C18_Witness == FairCoinRunOfThreeInTen /\ call.result.num > 0

(* ------------------------------------------------- the cache: steps *)
\* the dispatch of task t returns its response in this step
Completes(t) == tasks[t].pc # "done" /\ tasks'[t].pc = "done"

\* the response returned in this step is served from the cache
Hit(t) == Completes(t) /\ tasks'[t].response.x_cache = "HIT"

\* a GET request whose path starts with /api/
GetUnderApi(req) ==
    req.method = "GET" /\ Len(req.path) >= 2 /\ SubSeq(req.path, 1, 1) = <<"api">>

(* ------------------------------------------------------------------ C13 *)
\* C13: the cache stores a response only for a GET request under /api/ whose
\* downstream status is 200; any other request is passed straight to the
\* downstream handler and leaves the cache unchanged; a non-200 response to a
\* cacheable GET is returned without being stored.
C13_StoresOnlyCacheable200 ==
    [][/\ \A k \in DOMAIN cache' :
             (k \notin DOMAIN cache \/ cache'[k] # cache[k]) =>
                \E t \in Tasks :
                   /\ Completes(t)
                   /\ GetUnderApi(tasks'[t].req)
                   /\ tasks'[t].response.status = 200
                   /\ tasks'[t].response.downstream_called
                   /\ k = _generate_cache_key(tasks'[t].req)
                   /\ cache'[k].body = tasks'[t].response.body
       /\ \A t \in Tasks :
             (tasks'[t] # tasks[t] /\ tasks'[t].pc # "idle"
              /\ ~GetUnderApi(tasks'[t].req)) =>
                /\ cache' = cache
                /\ tasks'[t].pc \in {"forward", "done"}
                /\ tasks'[t].pc = "done" =>
                      /\ tasks[t].pc = "forward"
                      /\ tasks'[t].response.downstream_called
                      /\ tasks'[t].response.x_cache = "NONE"
       /\ \A t \in Tasks :
             (Completes(t) /\ GetUnderApi(tasks'[t].req)
              /\ tasks'[t].response.status # 200) =>
                /\ cache' = cache
                /\ tasks'[t].response.downstream_called
                /\ tasks'[t].response.x_cache = "NONE"]_vars

\* one client has a 200 answer stored under its key, another was passed a POST's
\* answer, and the clock has not moved
C13_Witness ==
    \E t, u \in Tasks :
       /\ tasks[t].pc = "done"
       /\ GetUnderApi(tasks[t].req)
       /\ tasks[t].response.x_cache = "MISS"
       /\ _generate_cache_key(tasks[t].req) \in DOMAIN cache
       /\ tasks[u].pc = "done"
       /\ tasks[u].req.method = "POST"
       /\ tasks[u].response.status = 200
       /\ Cardinality(DOMAIN cache) = 1

(* ------------------------------------------------------------------ C14 *)
\* C14: a response is served from the cache (X-Cache: HIT, downstream not
\* called) only if the entry of its key was stored no more than ttl_seconds
\* ago; serving a hit leaves the stored timestamp as it is.
C14_HitWithinTtl ==
    [][\A t \in Tasks :
          Hit(t) =>
             LET req == tasks'[t].req
                 key == _generate_cache_key(req)
             IN  /\ tasks[t].pc = "idle"
                 /\ ~tasks'[t].response.downstream_called
                 /\ req \in DOMAIN stored
                 /\ now - stored[req].time <= ttl_seconds
                 /\ key \in DOMAIN cache
                 /\ now - cache[key].cached_time <= ttl_seconds
                 /\ key \in DOMAIN cache'
                 /\ cache'[key] = cache[key]
                 /\ stored' = stored]_vars

\* a hit served exactly ttl_seconds after the store
C14_Witness ==
    \E t \in Tasks :
       /\ tasks[t].pc = "done"
       /\ tasks[t].response.x_cache = "HIT"
       /\ _generate_cache_key(tasks[t].req) \in DOMAIN cache
       /\ now - cache[_generate_cache_key(tasks[t].req)].cached_time = ttl_seconds

(* ------------------------------------------------------------------ C16 *)
\* C16: every response served with X-Cache: HIT carries the body the downstream
\* handler produced for the most recent stored MISS of the same method, path
\* and query string; different (method, path, query) triples have different
\* keys, so they never share an entry.
C16_HitIsLastStored ==
    [][/\ \A r1, r2 \in Requests :
             r1 # r2 => _generate_cache_key(r1) # _generate_cache_key(r2)
       /\ \A t \in Tasks :
             Hit(t) =>
                /\ tasks'[t].req \in DOMAIN stored
                /\ tasks'[t].response.body = stored[tasks'[t].req].body
                /\ tasks'[t].response.status = 200]_vars

\* a hit for one query while the other query's entry holds another body
C16_Witness ==
    \E t \in Tasks :
       /\ tasks[t].pc = "done"
       /\ tasks[t].response.x_cache = "HIT"
       /\ \E k \in DOMAIN cache : cache[k].body # tasks[t].response.body

(* ------------------------------------------------------------------ C20 *)
\* task t is dispatched in this step with a cacheable GET whose key has an entry
\* older than ttl_seconds
FindsExpired(t) ==
    /\ tasks[t].pc = "idle"
    /\ tasks'[t].pc # "idle"
    /\ GetUnderApi(tasks'[t].req)
    /\ _generate_cache_key(tasks'[t].req) \in DOMAIN cache
    /\ now - cache[_generate_cache_key(tasks'[t].req)].cached_time > ttl_seconds

\* the dispatch that found an expired entry returns its response in this step
CompletesAfterExpiry(t) ==
    /\ Completes(t)
    /\ tasks[t].pc = "awaiting"
    /\ tasks[t].found_expired

\* on the read: the entry is deleted and the downstream handler is called
DeletedOnRead(t) ==
    FindsExpired(t) =>
       /\ _generate_cache_key(tasks'[t].req) \notin DOMAIN cache'
       /\ tasks'[t].pc = "awaiting"
       /\ tasks'[t].found_expired

\* the response comes from downstream, and a 200 is stored with the time of
\* the store
FreshAfterExpiry(t) ==
    CompletesAfterExpiry(t) =>
       LET key == _generate_cache_key(tasks'[t].req)
           resp == tasks'[t].response
       IN  /\ resp.downstream_called
           /\ resp.x_cache # "HIT"
           /\ resp.status = 200 =>
                 /\ key \in DOMAIN cache'
                 /\ cache'[key].body = resp.body
                 /\ cache'[key].cached_time = now

\* C20 as stated: when a cacheable GET finds an entry older than ttl_seconds the
\* entry is deleted and the downstream handler is called; afterwards the key is
\* absent when the downstream status is not 200 and otherwise holds the new
\* response with a fresh timestamp; the expired body is never returned.
C20_Original ==
    [][\A t \in Tasks :
          /\ DeletedOnRead(t)
          /\ FreshAfterExpiry(t)
          /\ (CompletesAfterExpiry(t) /\ tasks'[t].response.status # 200) =>
                _generate_cache_key(tasks'[t].req) \notin DOMAIN cache']_vars

\* C20 amended: as stated, except that after a downstream status other than
\* 200 the request has stored nothing, and the key is absent unless a
\* concurrent request for the same key stored its own response after the
\* deletion.
C20_Amended ==
    [][\A t \in Tasks :
          /\ DeletedOnRead(t)
          /\ FreshAfterExpiry(t)
          /\ (CompletesAfterExpiry(t) /\ tasks'[t].response.status # 200) =>
                LET req == tasks'[t].req
                    key == _generate_cache_key(req)
                IN  /\ cache' = cache
                    /\ key \in DOMAIN cache' =>
                          /\ cache'[key].cached_time >= tasks[t].since
                          /\ cache'[key].cached_time = stored[req].time
                          /\ cache'[key].body = stored[req].body]_vars

\* an expired entry was found and replaced: the key holds the new body with the
\* time of the store
C20_Witness ==
    \E t \in Tasks :
       /\ tasks[t].pc = "done"
       /\ tasks[t].response.x_cache = "MISS"
       /\ tasks[t].req \in DOMAIN stored
       /\ _generate_cache_key(tasks[t].req) \in DOMAIN cache
       /\ cache[_generate_cache_key(tasks[t].req)].cached_time = now
       /\ cache[_generate_cache_key(tasks[t].req)].cached_time > ttl_seconds

(* ------------------------------------------------------------------ C15 *)
\* C15: the response cache is a bounded store: the number of its entries never
\* exceeds a fixed bound, the most that fit before a dispatch sweeps it.
C15_Bounded == Cardinality(DOMAIN cache) <= CleanupThreshold + 1

(* ------------------------------------------------------------------ C22 *)
\* the place of a flag's detector in the order the claim gives
DetectorRank(flag) ==
    IF flag.flag_type = "TOURNAMENT_EXCELLENCE" THEN 1
    ELSE IF flag.flag_type = "LOW_VOLATILITY" THEN 2
    ELSE IF flag.flag_type = "IMPROBABLE_CONSISTENCY" THEN 3
    ELSE IF flag.flag_type = "PERFECT_TOURNAMENT_RECORD" THEN 4
    ELSE IF flag.flag_type = "CASUAL_TOURNAMENT_DISPARITY" THEN 5
    ELSE 0

CriticalIn(red_flags) == {i \in 1..Len(red_flags) : red_flags[i].severity = "CRITICAL"}

\* C22: red_flags holds at most one flag per detector, in the order tournament
\* excellence, low volatility, improbable consistency, perfect record, casual
\* disparity (at most 5 flags, at most 4 without casual rounds), and the risk
\* scorer is called with num_red_flags = the length of the list and
\* critical_flags = the number of its CRITICAL flags.
C22_FlagList ==
    Answered =>
        LET red_flags == response.red_flags
            arguments == scorer_arguments_of(request)
        IN  /\ \A i \in 1..Len(red_flags) : DetectorRank(red_flags[i]) \in 1..5
            /\ \A i, j \in 1..Len(red_flags) :
                  i < j => DetectorRank(red_flags[i]) < DetectorRank(red_flags[j])
            /\ Len(red_flags) <= 5
            /\ CasualAbsentOrEmpty => Len(red_flags) <= 4
            /\ arguments.num_red_flags = Len(red_flags)
            /\ arguments.critical_flags = Cardinality(CriticalIn(red_flags))
            /\ response.sandbagging_risk_score
                  = calculate_sandbagging_risk_score(
                        arguments.tournament_avg_vs_expected,
                        arguments.tournament_percentile, arguments.volatility_ratio,
                        Len(red_flags), Cardinality(CriticalIn(red_flags))).risk_score

\* all five detectors flagged, one of them CRITICAL and one HIGH
C22_Witness ==
    /\ Answered
    /\ Len(response.red_flags) = 5
    /\ CriticalIn(response.red_flags) # {}
    /\ \E i \in 1..5 : response.red_flags[i].severity = "HIGH"

(* ------------------------------------------------------------------ C23 *)
\* LOW < MODERATE < HIGH < SEVERE
LevelRank(risk_level) ==
    IF risk_level = "LOW" THEN 0
    ELSE IF risk_level = "MODERATE" THEN 1
    ELSE IF risk_level = "HIGH" THEN 2
    ELSE 3

\* the result a is at most the result b, in score and in level
NotAbove(a, b) ==
    /\ a.risk_score <= b.risk_score
    /\ LevelRank(a.risk_level) <= LevelRank(b.risk_level)

\* C23: with the other arguments fixed, the risk score and the risk level never
\* decrease when num_red_flags or critical_flags grows, and never increase when
\* tournament_avg_vs_expected, tournament_percentile or volatility_ratio grows.
C23_Monotone ==
    IsRiskCall =>
        LET a == call.tournament_avg_vs_expected
            p == call.tournament_percentile
            v == call.volatility_ratio
            n == call.num_red_flags
            c == call.critical_flags
        IN  /\ \A n2 \in 0..MaxFlags :
                  n2 >= n => NotAbove(call.result,
                                      calculate_sandbagging_risk_score(a, p, v, n2, c))
            /\ \A c2 \in 0..MaxCritical :
                  c2 >= c => NotAbove(call.result,
                                      calculate_sandbagging_risk_score(a, p, v, n, c2))
            /\ \A a2 \in AvgGrid :
                  a2 >= a => NotAbove(calculate_sandbagging_risk_score(a2, p, v, n, c),
                                      call.result)
            /\ \A p2 \in PctGrid :
                  p2 >= p => NotAbove(calculate_sandbagging_risk_score(a, p2, v, n, c),
                                      call.result)
            /\ \A v2 \in RatioGrid :
                  v2 >= v => NotAbove(calculate_sandbagging_risk_score(a, p, v2, n, c),
                                      call.result)

\* a call whose level falls when the average grows and rises with one more
\* critical flag
C23_Witness ==
    /\ IsRiskCall
    /\ call.result.risk_level = "MODERATE"
    /\ call.critical_flags < MaxCritical
    /\ calculate_sandbagging_risk_score(
           call.tournament_avg_vs_expected, call.tournament_percentile,
           call.volatility_ratio, call.num_red_flags,
           call.critical_flags + 1).risk_level = "HIGH"
    /\ \E a2 \in AvgGrid :
          /\ a2 > call.tournament_avg_vs_expected
          /\ calculate_sandbagging_risk_score(
                 a2, call.tournament_percentile, call.volatility_ratio,
                 call.num_red_flags, call.critical_flags).risk_level = "LOW"

(* ------------------------------------------------------------------ C24 *)
HasCriticalFlag(red_flags, flag_type) ==
    \E i \in CriticalIn(red_flags) : red_flags[i].flag_type = flag_type

\* C24 as stated: whenever red_flags contains a flag of severity CRITICAL, the
\* reported risk level is not LOW.
C24_Original ==
    (Answered /\ CriticalIn(response.red_flags) # {}) => response.risk_level # "LOW"

\* C24 amended: a CRITICAL flag guarantees a risk score of at least 13 (3 for
\* the flag and 10 for its severity), which alone is LOW; the level is not LOW
\* (it is HIGH or SEVERE, the score at least 73) whenever the CRITICAL flag is
\* the tournament-excellence flag.
C24_Amended ==
    (Answered /\ CriticalIn(response.red_flags) # {}) =>
        /\ response.sandbagging_risk_score
              >= 3 * Len(response.red_flags)
                 + 10 * Cardinality(CriticalIn(response.red_flags))
           \/ response.sandbagging_risk_score = 100
        /\ response.sandbagging_risk_score >= 13
        /\ HasCriticalFlag(response.red_flags, "TOURNAMENT_EXCELLENCE") =>
              /\ response.sandbagging_risk_score >= 73
              /\ response.risk_level \in {"HIGH", "SEVERE"}

\* 18-hole tournament rounds with a CRITICAL disparity flag alone: 13 points,
\* level LOW
C24_Witness ==
    /\ Answered
    /\ HasCriticalFlag(response.red_flags, "CASUAL_TOURNAMENT_DISPARITY")
    /\ response.risk_level = "LOW"
    /\ response.sandbagging_risk_score = 13
    /\ \A i \in 1..Len(request.tournament_scores) :
          request.tournament_scores[i].holes_played = 18

(* ------------------------------------------------------------------ C25 *)
\* C25: for a request with exactly one tournament round (the expected
\* volatility being positive) the volatility ratio is 0, the analysis reports
\* volatility_vs_expected = LOW, red_flags holds a LOW_VOLATILITY flag of
\* severity HIGH, and the risk score has the full 20 volatility points.
C25_OneRoundLowVolatility ==
    (OneTournamentRound /\ Answered
     /\ estimate_score_std(request.golfer.handicap_index) > 0) =>
        LET arguments == scorer_arguments_of(request)
            red_flags == response.red_flags
        IN  /\ arguments.volatility_ratio = 0
            /\ response.volatility_vs_expected = "LOW"
            /\ \E i \in 1..Len(red_flags) :
                  red_flags[i] = SandbaggerRedFlag("LOW_VOLATILITY", "HIGH")
            /\ response.sandbagging_risk_score
                  = Min(100, TournamentPoints(arguments.tournament_avg_vs_expected)
                             + PercentilePoints(arguments.tournament_percentile)
                             + 20
                             + Min(3 * Len(red_flags), 15)
                             + 10 * Cardinality(CriticalIn(red_flags)))

\* one round at the expected score or above: the low-volatility flag is the
\* only one and the 20 points with its 3 are the whole score
C25_Witness ==
    /\ OneTournamentRound
    /\ Answered
    /\ response.red_flags = <<SandbaggerRedFlag("LOW_VOLATILITY", "HIGH")>>
    /\ response.sandbagging_risk_score = 23

(* ------------------------------------------------------------------ C26 *)
\* C26: in every sandbagging response has_casual_comparison is true exactly
\* when casual_vs_tournament_diff is not null.
C26_ComparisonIffDiff ==
    Answered =>
        (response.has_casual_comparison <=> ~response.casual_vs_tournament_diff.is_none)

(* ------------------------------------------------------------------ C27 *)
HasFlagOfType(red_flags, flag_type) ==
    \E i \in 1..Len(red_flags) : red_flags[i].flag_type = flag_type

\* C27: in every sandbagging response volatility_vs_expected is LOW exactly
\* when red_flags contains a LOW_VOLATILITY flag, and is HIGH or NORMAL exactly
\* when it does not.
C27_LowLabelIffFlag ==
    Answered =>
        /\ response.volatility_vs_expected \in {"LOW", "HIGH", "NORMAL"}
        /\ (response.volatility_vs_expected = "LOW")
              <=> HasFlagOfType(response.red_flags, "LOW_VOLATILITY")
        /\ (response.volatility_vs_expected \in {"HIGH", "NORMAL"})
              <=> ~HasFlagOfType(response.red_flags, "LOW_VOLATILITY")

\* several rounds whose spread lies between half and 0.7 of the expected one:
\* the label is LOW and the flag is the MEDIUM one
C27_Witness ==
    /\ Answered
    /\ Len(request.tournament_scores) >= 2
    /\ response.volatility_vs_expected = "LOW"
    /\ \E i \in 1..Len(response.red_flags) :
          response.red_flags[i] = SandbaggerRedFlag("LOW_VOLATILITY", "MEDIUM")

(* ------------------------------------------------------------------ C28 *)
\* C28: when the casual rounds and the tournament rounds of a sandbagging
\* request have the same gross scores and the same holes_played (9 or 18), the
\* route raises no CASUAL_TOURNAMENT_DISPARITY flag.
C28_SameRoundsNoDisparity ==
    (/\ Answered
     /\ request.casual_scores.present
     /\ request.casual_scores.rounds = request.tournament_scores) =>
        ~HasFlagOfType(response.red_flags, "CASUAL_TOURNAMENT_DISPARITY")

(* ------------------------------------------------------------------ C21 *)
\* task t starts the dispatch of a GET under /api/ in this step
DispatchesCacheable(t) ==
    /\ tasks[t].pc = "idle"
    /\ tasks'[t].pc # "idle"
    /\ IsCacheable(tasks'[t].req)

ExpiredKeys(c) == {k \in DOMAIN c : _is_expired(c[k].cached_time)}

\* the entry of key k is in the cache after the step as it was before
Kept(k) == k \in DOMAIN cache' /\ cache'[k] = cache[k]

\* C21: whenever a cacheable GET is dispatched while the cache holds more than
\* 100 entries, every expired entry is removed before the lookup (so the lookup
\* never finds an expired entry) and no unexpired entry is removed; when the
\* cache holds 100 entries or fewer, no entry other than the looked-up key's
\* own is removed.
C21_SizeTriggeredSweep ==
    [][\A t \in Tasks :
          DispatchesCacheable(t) =>
              IF Cardinality(DOMAIN cache) > CleanupThreshold
              THEN /\ \A k \in ExpiredKeys(cache) : k \notin DOMAIN cache'
                   /\ \A k \in DOMAIN cache \ ExpiredKeys(cache) : Kept(k)
                   /\ tasks'[t].pc = "awaiting" => ~tasks'[t].found_expired
              ELSE \A k \in DOMAIN cache \ {_generate_cache_key(tasks'[t].req)} : Kept(k)]_vars

\* a dispatch has just swept a cache of more than 100 entries: the entries
\* older than the time to live are gone and a younger one is still there
C21_Witness ==
    /\ tasks["t1"].pc = "awaiting"
    /\ tasks["t1"].since = now
    /\ Cardinality(DOMAIN stored) > CleanupThreshold
    /\ Cardinality(DOMAIN cache) < CleanupThreshold
    /\ cache # <<>>
    /\ \A k \in DOMAIN cache : ~_is_expired(cache[k].cached_time)
    /\ \E req \in DOMAIN stored :
          /\ _generate_cache_key(req) \notin DOMAIN cache
          /\ now - stored[req].time > ttl_seconds

(* ------------------------------------------------------------------ C29 *)
\* the entry a 200 downstream response r gives when it is stored at time time
EntryOf(r, time) == [body |-> r.body, headers |-> r.headers, cached_time |-> time]

\* every entry is the whole (body, headers, timestamp) of one downstream
\* response with status 200, stored at some time up to now
WholeEntries ==
    \A k \in DOMAIN cache :
        \E r \in DownstreamResponses, time \in 0..now :
            r.status = 200 /\ cache[k] = EntryOf(r, time)

\* task t gets the downstream answer of a cacheable GET in this step
MissCompletes(t) == tasks[t].pc = "awaiting" /\ tasks'[t].pc = "done"

\* C29: under any interleaving of concurrent dispatches, which yield only
\* while awaiting downstream, a dispatch that reads or deletes its key's entry
\* finds the entry in the cache; each key's entry is always the complete
\* (body, headers, timestamp) of a single downstream response; every miss
\* calls downstream, and a miss that ends with status 200 overwrites the
\* key's entry with its own response whatever another dispatch stored there.
C29_ConcurrentDispatches ==
    [][/\ WholeEntries'
       /\ \A t \in Tasks :
            /\ (DispatchesCacheable(t) /\ tasks'[t].pc = "done") =>
                  LET cache_key == _generate_cache_key(tasks'[t].req)
                  IN  /\ cache_key \in DOMAIN cache
                      /\ tasks'[t].response = HitResponse(cache[cache_key])
            /\ (DispatchesCacheable(t) /\ tasks'[t].pc = "awaiting"
                    /\ tasks'[t].found_expired) =>
                  LET cache_key == _generate_cache_key(tasks'[t].req)
                  IN  cache_key \in DOMAIN cache /\ cache_key \notin DOMAIN cache'
            /\ MissCompletes(t) =>
                  LET cache_key == _generate_cache_key(tasks[t].req)
                      r == tasks'[t].response
                  IN  /\ r.downstream_called
                      /\ r.status = 200 =>
                            /\ cache_key \in DOMAIN cache'
                            /\ cache'[cache_key] = EntryOf(r, now)
                            /\ \A k \in DOMAIN cache \ {cache_key} : Kept(k)]_vars

\* two dispatches missed the same key at the same time, both called
\* downstream and got different bodies; the entry is the one of "t2", which
\* finished last
C29_Witness ==
    /\ now = 0
    /\ tasks["t1"].pc = "done" /\ tasks["t2"].pc = "done"
    /\ tasks["t1"].req = tasks["t2"].req
    /\ tasks["t1"].response.x_cache = "MISS" /\ tasks["t2"].response.x_cache = "MISS"
    /\ tasks["t1"].response.body # tasks["t2"].response.body
    /\ _generate_cache_key(tasks["t2"].req) \in DOMAIN cache
    /\ cache[_generate_cache_key(tasks["t2"].req)].body = tasks["t2"].response.body

(* ------------------------------------------------------------------ C30 *)
\* task t moves in this step and works on a request to an endpoint of golf.py
ServesEndpoint(t) ==
    /\ tasks'[t] # tasks[t]
    /\ tasks'[t].pc # "idle"
    /\ tasks'[t].req \in EndpointRequests

\* C30: no response of the endpoints of routes/golf.py, all registered as
\* POST, is stored in or served from the cache: every step of a request to
\* them leaves the cache as it is, and the request reaches the downstream
\* handler, whose response is returned as it is.
C30_EndpointsBypassCache ==
    [][\A t \in Tasks :
          ServesEndpoint(t) =>
              /\ cache' = cache
              /\ tasks[t].pc = "idle" => tasks'[t].pc = "forward"
              /\ tasks'[t].pc = "done" =>
                    /\ tasks[t].pc = "forward"
                    /\ \E r \in DownstreamResponses : tasks'[t].response = Passed(r)]_vars

\* the cache holds the answer to a GET on /api/analyze/sandbagging, and a POST
\* to the same path has been answered by the handler with another body
C30_Witness ==
    /\ _generate_cache_key(EndpointGet) \in DOMAIN cache
    /\ tasks["t2"].pc = "done"
    /\ tasks["t2"].req = Request("POST", EndpointGet.path, 0)
    /\ tasks["t2"].response.status = 200
    /\ tasks["t2"].response.downstream_called
    /\ tasks["t2"].response.x_cache = "NONE"
    /\ tasks["t2"].response.body # cache[_generate_cache_key(EndpointGet)].body

====
